---- MODULE Spec2Model ----
(***************************************************************************)
(* A model of the sliding_windows crate: Storage (the backing buffer with  *)
(* its runtime borrow flag), Window (the view handed out by the Adaptor)   *)
(* and Adaptor (the iterator that pulls, pushes and yields Windows).       *)
(*                                                                         *)
(* Elements are opaque to the code (it is generic over T and never looks   *)
(* at a value), so the i-th element pulled by adaptor a is the label       *)
(* 100*a + i; a value written through a Window of adaptor a is 100*a + 99. *)
(***************************************************************************)
EXTENDS Integers, Sequences, FiniteSets, TLC

\* ---------------------------------------------------------------- bounds
MaxSize == 3        \* window sizes 0 .. MaxSize
MaxLen == 4         \* inputs of 0 .. MaxLen elements for the first Adaptor
MaxLen2 == 2        \* inputs of 0 .. MaxLen2 elements for the second Adaptor
MaxStale == 1       \* the Vec given to from_vec holds 0 .. MaxStale elements
MaxWrites == 1      \* writes made through Windows in one run of the model
MaxHint == 5        \* bounds of the inner iterator's size_hint: 0 .. MaxHint

Adaptors == {1, 2}

\* model values standing for things that are not elements
NONE == 0           \* the inner iterator answers None here (Option::None)
STALE == 1          \* an element of the Vec handed to Storage::from_vec
OOB == -1           \* an index outside the slice (the read panics)
GARBAGE == -2       \* memory that was never written
NoHint == -1        \* Option<usize>::None as an upper bound

Elt(a, i) == 100 * a + i
Written(a) == 100 * a + 99

VARIABLES
    window_size,     \* Storage.window_size
    window_offset,   \* Storage.window_offset
    uniquely_owned,  \* Storage.uniquely_owned
    data,            \* Storage.data (the Vec's elements, physical order)
    spare,           \* what the Vec's buffer still holds past its length
    consumed,        \* the Storage was moved out by into()
    panicked,        \* an assert failed: the thread is unwinding
    vec,             \* the Vec that into() returned
    adaptors,        \* per Adaptor: born, iter (what the inner iterator has left), done
    windows,         \* the live Windows: owner and Window.window_offset
    input,           \* history: the input each Adaptor was constructed with
    yielded,         \* history: how many Windows each Adaptor has returned
    lastCall,        \* history: the last call, what it returned and what it pulled
    finished,        \* history: the Adaptors that have returned None
    disturbed,       \* history: the Storage was used outside the one-adaptor protocol
    consecutive,     \* history: adaptor 2 was constructed after adaptor 1 finished
    lastWrite,       \* history: the last write made through a Window
    writes,          \* history: how many writes were made through Windows
    hint,            \* the last size_hint() call: inner estimate and result
    from_vec         \* history: the Vec the Storage of the first Adaptor was made from

vars == <<window_size, window_offset, uniquely_owned, data, spare, consumed, panicked, vec,
          adaptors, windows, input, yielded, lastCall, finished, disturbed, consecutive,
          lastWrite, writes, hint, from_vec>>

\* ------------------------------------------------------------ the inputs
RECURSIVE Range(_, _, _)
\* the elements from..to of adaptor a's input, as the range a test feeds in
Range(a, from, to) ==
    IF from > to THEN <<>> ELSE <<Elt(a, from)>> \o Range(a, from + 1, to)

\* An inner iterator: n elements; one that is not fused answers None once
\* after g elements and then goes on (g = -1: a fused iterator).
MkInput(a, n, g) ==
    IF g = -1 THEN Range(a, 1, n)
    ELSE Range(a, 1, g) \o <<NONE>> \o Range(a, g + 1, n)

\* The inputs an Adaptor is constructed with: the fused iterators of every
\* length and, for the first Adaptor on a Storage, the iterators of MaxLen
\* elements that answer None once on the way.
Inputs(a) ==
    {MkInput(a, n, -1) : n \in 0..(IF a = 1 THEN MaxLen ELSE MaxLen2)}
        \cup IF a = 1
             THEN {MkInput(a, MaxLen, g) : g \in 0..(MaxLen - 1)}
             ELSE {}

Fused(inp) == \A i \in 1..Len(inp) : inp[i] /= NONE

StaleVec(k) == [i \in 1..k |-> STALE]

\* ---------------------------------------------------------------- Storage
\* NewOffset without the wrap-around
NewOffsetNoWrap(off) == off + 1

\* Storage::push, the offset after overwriting slot off of a full buffer
NewOffset(off) ==
    IF off >= window_size - 1 THEN 0 ELSE off + 1

\* push that reports a full window after every element
push_always_full(d, sp, off, elt) ==
    IF Len(d) < window_size
    THEN [data |-> Append(d, elt),
          spare |-> IF sp = <<>> THEN <<>> ELSE Tail(sp),
          off |-> off, ret |-> TRUE]
    ELSE [data |-> [d EXCEPT ![off + 1] = elt], spare |-> sp,
          off |-> NewOffset(off), ret |-> TRUE]

\* push that overwrites the slot after the logical start
push_overwrites_next(d, sp, off, elt) ==
    IF Len(d) < window_size
    THEN [data |-> Append(d, elt),
          spare |-> IF sp = <<>> THEN <<>> ELSE Tail(sp),
          off |-> off,
          ret |-> (Len(d) + 1 = window_size)]
    ELSE [data |-> [d EXCEPT ![NewOffset(off) + 1] = elt], spare |-> sp,
          off |-> NewOffset(off), ret |-> TRUE]

\* push that appends to a full buffer too
push_appends_always(d, sp, off, elt) ==
    [data |-> Append(d, elt),
     spare |-> IF sp = <<>> THEN <<>> ELSE Tail(sp),
     off |-> off,
     ret |-> (Len(d) + 1 >= window_size)]

\* Storage::push on a Storage whose flag allows it: the Vec, the offset and
\* the value returned. Vec::push writes the first spare slot of the buffer
\* (a Vec that is out of capacity has no spare slot left to keep).
push(d, sp, off, elt) ==
    IF Len(d) < window_size
    THEN [data |-> Append(d, elt),
          spare |-> IF sp = <<>> THEN <<>> ELSE Tail(sp),
          off |-> off,
          ret |-> (Len(d) + 1 = window_size)]
    ELSE [data |-> [d EXCEPT ![off + 1] = elt], spare |-> sp,
          off |-> NewOffset(off), ret |-> TRUE]

\* clear that leaves the Vec as it is
clear_keeps_data(d, sp, off) == [data |-> d, spare |-> sp, off |-> off]

\* Storage::clear: data.clear(), and nothing else. Vec::clear sets the
\* length to 0; the buffer keeps its capacity and what was stored in it.
clear(d, sp, off) == [data |-> <<>>, spare |-> d \o sp, off |-> off]

\* ----------------------------------------------------------------- Window
RECURSIVE IterCollect(_, _, _)
\* WindowIter::next called until it returns None: the elements it returns,
\* from current_index cur with iteration_num num
IterCollect(d, cur, num) ==
    IF cur >= Len(d) THEN <<OOB>>
    ELSE IF num >= Len(d) THEN <<>>
    ELSE <<d[cur + 1]>> \o
         IterCollect(d, IF cur >= Len(d) - 1 THEN 0 ELSE cur + 1, num + 1)

\* Window::iter: a traversal from window_offset
WindowRead(d, off) == IterCollect(d, off, 0)

\* PartialEq<&[T]> for Window: false on a different length, else the
\* traversal of iter() compared element by element (it panics where the
\* traversal does)
WindowEq(d, off, other) ==
    IF Len(d) /= Len(other) THEN "false"
    ELSE LET w == WindowRead(d, off) IN
         IF w = <<OOB>> THEN "panic"
         ELSE IF \A i \in 1..Len(w) : w[i] = other[i] THEN "true"
         ELSE "false"

\* the raw buffer behind the slice: the elements, then the spare capacity
Buf(d, sp) == d \o sp

\* what a raw pointer to slot p of the buffer reads
BufRead(d, sp, p) ==
    IF p < Len(d) + Len(sp) THEN Buf(d, sp)[p + 1] ELSE GARBAGE

\* a write through a raw pointer to slot p of the buffer
BufWrite(d, sp, p, v) ==
    IF p < Len(d) THEN [data |-> [d EXCEPT ![p + 1] = v], spare |-> sp]
    ELSE IF p < Len(d) + Len(sp)
    THEN [data |-> d, spare |-> [sp EXCEPT ![p - Len(d) + 1] = v]]
    ELSE [data |-> d, spare |-> sp]

RECURSIVE IterMutCollect(_, _, _, _)
\* WindowIterMut::next called until it returns None: the elements it returns,
\* from current_index cur with iteration_num num
IterMutCollect(d, sp, cur, num) ==
    IF num >= Len(d) THEN <<>>
    ELSE <<BufRead(d, sp, cur)>> \o
         IterMutCollect(d, sp, IF cur >= Len(d) - 1 THEN 0 ELSE cur + 1, num + 1)

\* Window::iter_mut: a traversal from window_offset
WindowReadMut(d, sp, off) == IterMutCollect(d, sp, off, 0)

RECURSIVE IterIndex(_, _, _)
\* WindowIterMut: the physical index of the k-th element it returns
IterIndex(len, cur, k) ==
    IF k = 0 THEN cur
    ELSE IterIndex(len, IF cur >= len - 1 THEN 0 ELSE cur + 1, k - 1)

\* ---------------------------------------------------------------- Adaptor
\* Storage::push without its assert
PushAlwaysAllowed == TRUE

\* the assert that opens Storage::push
PushAllowed == uniquely_owned

RECURSIVE NextLoopNoBreak(_, _, _, _, _, _)
\* the for loop without its break: it pulls on after a push returned true
NextLoopNoBreak(it, d, sp, off, dn, n) ==
    IF it = <<>> THEN
        [iter |-> it, data |-> d, spare |-> sp, off |-> off, done |-> dn,
         pulled |-> n, panic |-> FALSE]
    ELSE IF Head(it) = NONE THEN
        [iter |-> Tail(it), data |-> d, spare |-> sp, off |-> off, done |-> dn,
         pulled |-> n, panic |-> FALSE]
    ELSE IF ~PushAllowed THEN
        [iter |-> Tail(it), data |-> d, spare |-> sp, off |-> off,
         done |-> FALSE, pulled |-> n + 1, panic |-> TRUE]
    ELSE LET r == push(d, sp, off, Head(it)) IN
        NextLoopNoBreak(Tail(it), r.data, r.spare, r.off, FALSE, n + 1)

RECURSIVE NextLoop(_, _, _, _, _, _)
\* the for loop of Adaptor::next: pull until the inner iterator answers None
\* or a push returns true; a push on a borrowed Storage panics
NextLoop(it, d, sp, off, dn, n) ==
    IF it = <<>> THEN
        [iter |-> it, data |-> d, spare |-> sp, off |-> off, done |-> dn,
         pulled |-> n, panic |-> FALSE]
    ELSE IF Head(it) = NONE THEN
        [iter |-> Tail(it), data |-> d, spare |-> sp, off |-> off, done |-> dn,
         pulled |-> n, panic |-> FALSE]
    ELSE IF ~PushAllowed THEN
        [iter |-> Tail(it), data |-> d, spare |-> sp, off |-> off,
         done |-> FALSE, pulled |-> n + 1, panic |-> TRUE]
    ELSE LET r == push(d, sp, off, Head(it)) IN
        IF r.ret
        THEN [iter |-> Tail(it), data |-> r.data, spare |-> r.spare,
              off |-> r.off, done |-> FALSE, pulled |-> n + 1, panic |-> FALSE]
        ELSE NextLoop(Tail(it), r.data, r.spare, r.off, FALSE, n + 1)

\* the early return without the test of the window size
NextIdleDoneOnly(a) == adaptors[a].done

\* the early return without the test of done
NextIdleSizeOnly(a) == window_size = 0

\* Adaptor::next, the early return
NextIdle(a) == adaptors[a].done \/ window_size = 0

NoCall == [op |-> "init", a |-> 0, res |-> "ok", pulled |-> 0, win |-> <<>>,
           again |-> FALSE]
NoWrite == [a |-> 0, k |-> 0, at |-> 0, full |-> FALSE]
NoHintYet == [lo |-> 0, hi |-> 0, lower |-> 0, upper |-> 0, called |-> FALSE]
Unborn == [born |-> FALSE, iter |-> <<>>, done |-> FALSE]
\* An Adaptor whose done is set returns from next() at its first line and
\* never pulls again: what its inner iterator has left plays no part any
\* more, and is forgotten (with the history of its run) when the next
\* Adaptor is constructed on the Storage.
Finished == [born |-> TRUE, iter |-> <<>>, done |-> TRUE]

\* the Storage is there and no assert has failed
Running == ~consumed /\ ~panicked

\* Storage::from_vec (Storage::new is from_vec of an empty Vec)
StorageInit(sizes) ==
    /\ window_size \in sizes
    /\ window_offset = 0
    /\ uniquely_owned = TRUE
    /\ data \in {StaleVec(k) : k \in 0..MaxStale}
    /\ spare = <<>>
    /\ consumed = FALSE
    /\ panicked = FALSE
    /\ vec = <<>>
    /\ adaptors = [a \in Adaptors |-> Unborn]
    /\ windows = <<>>
    /\ input = [a \in Adaptors |-> <<>>]
    /\ yielded = [a \in Adaptors |-> 0]
    /\ lastCall = NoCall
    /\ finished = {}
    /\ disturbed = FALSE
    /\ consecutive = FALSE
    /\ lastWrite = NoWrite
    /\ writes = 0
    /\ hint = NoHintYet
    /\ from_vec = data

Init == StorageInit(0..MaxSize)

\* Adaptor::new(iter, &storage): clear() asserts the flag, then the Adaptor
\* is made. What is recorded of the first run (the Vec its Storage was made
\* from) is forgotten when the second Adaptor is constructed.
AdaptorNew(a, inp) ==
    /\ Running
    /\ ~adaptors[a].born
    /\ a = 2 => adaptors[1].born
    /\ IF uniquely_owned
       THEN LET c == clear(data, spare, window_offset) IN
            /\ data' = c.data
            /\ spare' = c.spare
            /\ window_offset' = c.off
            /\ adaptors' = [b \in Adaptors |->
                              IF b = a
                              THEN [born |-> TRUE, iter |-> inp, done |-> FALSE]
                              ELSE IF adaptors[b].done THEN Finished
                              ELSE adaptors[b]]
            /\ input' = [b \in Adaptors |->
                              IF b = a THEN inp
                              ELSE IF adaptors[b].done THEN <<>> ELSE input[b]]
            /\ yielded' = [b \in Adaptors |->
                              IF adaptors[b].done THEN 0 ELSE yielded[b]]
            /\ lastCall' = [NoCall EXCEPT !.op = "new", !.a = a]
            /\ disturbed' = (disturbed \/ (a = 2 /\ ~adaptors[1].done))
            /\ consecutive' = (a = 2 /\ adaptors[1].done /\ windows = <<>>)
            /\ lastWrite' = NoWrite
       ELSE /\ lastCall' = [NoCall EXCEPT !.op = "new", !.a = a, !.res = "panic"]
            /\ UNCHANGED <<data, spare, window_offset, adaptors, input, yielded,
                           disturbed, consecutive, lastWrite>>
    /\ from_vec' = IF a = 1 THEN from_vec ELSE <<>>
    /\ hint' = NoHintYet
    /\ panicked' = (lastCall'.res = "panic")
    /\ UNCHANGED <<window_size, finished, writes, uniquely_owned, consumed, vec, windows>>

\* new_window that leaves the flag as it is
new_window_flag_kept(a, off) ==
    IF ~uniquely_owned
    THEN [panic |-> TRUE, flag |-> uniquely_owned, wins |-> windows]
    ELSE [panic |-> FALSE, flag |-> uniquely_owned,
          wins |-> Append(windows, [owner |-> a, window_offset |-> off])]

\* Storage::new_window for adaptor a on a Storage whose offset is off: the
\* assert on the flag, the flag cleared, the Window made
new_window(a, off) ==
    IF ~uniquely_owned
    THEN [panic |-> TRUE, flag |-> uniquely_owned, wins |-> windows]
    ELSE [panic |-> FALSE, flag |-> FALSE,
          wins |-> Append(windows, [owner |-> a, window_offset |-> off])]

\* Adaptor::next
AdaptorNext(a) ==
    /\ Running
    /\ adaptors[a].born
    /\ IF NextIdle(a)
       THEN /\ lastCall' = [NoCall EXCEPT !.op = "next", !.a = a, !.res = "none",
                                           !.again = a \in finished]
            /\ UNCHANGED <<data, spare, window_offset, uniquely_owned, adaptors, windows,
                           yielded, lastWrite>>
       ELSE LET r == NextLoop(adaptors[a].iter, data, spare, window_offset, TRUE, 0)
                w == new_window(a, r.off)
                some == ~r.panic /\ ~r.done /\ ~w.panic
            IN
            /\ data' = r.data
            /\ spare' = r.spare
            /\ window_offset' = r.off
            /\ adaptors' = [adaptors EXCEPT ![a].iter = r.iter, ![a].done = r.done]
            /\ uniquely_owned' = IF ~r.panic /\ ~r.done THEN w.flag ELSE uniquely_owned
            /\ windows' = IF ~r.panic /\ ~r.done THEN w.wins ELSE windows
            /\ yielded' = [yielded EXCEPT ![a] = IF some THEN @ + 1 ELSE @]
            /\ lastCall' = [op |-> "next", a |-> a, again |-> a \in finished,
                            res |-> IF some THEN "some"
                                    ELSE IF r.panic \/ ~r.done THEN "panic"
                                    ELSE "none",
                            pulled |-> r.pulled,
                            win |-> IF some THEN WindowRead(r.data, r.off) ELSE <<>>]
            /\ lastWrite' = IF r.pulled > 0 /\ lastWrite.a /= a THEN NoWrite
                            ELSE lastWrite
    /\ finished' = IF lastCall'.res = "none" THEN finished \cup {a} ELSE finished
    /\ disturbed' = (disturbed \/ windows /= <<>>)
    /\ hint' = NoHintYet
    /\ panicked' = (lastCall'.res = "panic")
    /\ UNCHANGED <<window_size, from_vec, writes, consumed, vec, input, consecutive>>

\* what is left of a sequence when its i-th entry is taken out
Remove(s, i) == [j \in 1..(Len(s) - 1) |-> IF j < i THEN s[j] ELSE s[j + 1]]

\* Drop for Window: the flag is set, the Window is gone
drop(i) == [flag |-> TRUE, wins |-> Remove(windows, i)]

WindowDrop(i) ==
    /\ Running
    /\ i \in 1..Len(windows)
    /\ LET r == drop(i) IN
       /\ uniquely_owned' = r.flag
       /\ windows' = r.wins
    /\ lastCall' = [NoCall EXCEPT !.op = "drop", !.a = windows[i].owner]
    /\ hint' = NoHintYet
    /\ panicked' = (lastCall'.res = "panic")
    /\ UNCHANGED <<window_size, from_vec, finished, spare, writes, window_offset, data, consumed, vec, adaptors,
                   input, yielded, disturbed, consecutive, lastWrite>>

\* *window.iter_mut().nth(k) = v: WindowIterMut walks from window_offset with
\* a raw pointer and no bounds check. With window_offset inside the slice
\* the k-th element is overwritten; with window_offset at or past its end
\* the walk starts in the Vec's spare capacity (undefined behaviour; the
\* build reads and writes the buffer there).
WindowWrite(i, k) ==
    /\ Running
    /\ i \in 1..Len(windows)
    /\ k \in 0..(Len(data) - 1)
    /\ writes < MaxWrites
    /\ writes' = writes + 1
    /\ LET w == windows[i]
           r == BufWrite(data, spare, IterIndex(Len(data), w.window_offset, k),
                         Written(w.owner))
       IN
       /\ data' = r.data
       /\ spare' = r.spare
       /\ IF w.window_offset < Len(data)
          THEN /\ lastCall' = [NoCall EXCEPT !.op = "write", !.a = w.owner]
               /\ lastWrite' = [a |-> w.owner, k |-> k, at |-> yielded[w.owner],
                                full |-> (Len(data) = window_size)]
          ELSE /\ lastCall' = [NoCall EXCEPT !.op = "write", !.a = w.owner,
                                              !.res = "ub"]
               /\ lastWrite' = NoWrite
    /\ disturbed' = TRUE
    /\ hint' = NoHintYet
    /\ panicked' = (lastCall'.res = "panic")
    /\ UNCHANGED <<window_size, from_vec, finished, window_offset, uniquely_owned, consumed, vec,
                   adaptors, windows, input, yielded, consecutive>>

\* Into<Vec<T>> for Storage. It takes the Storage by value, so no Window
\* (which borrows it) is live when it is called.
StorageInto ==
    /\ Running
    /\ windows = <<>>
    /\ \E a \in Adaptors : adaptors[a].born
    /\ consumed' = TRUE
    /\ IF uniquely_owned
       THEN /\ vec' = data
            /\ lastCall' = [NoCall EXCEPT !.op = "into"]
       ELSE /\ vec' = <<>>
            /\ lastCall' = [NoCall EXCEPT !.op = "into", !.res = "panic"]
    /\ hint' = NoHintYet
    /\ panicked' = (lastCall'.res = "panic")
    /\ UNCHANGED <<window_size, from_vec, finished, spare, writes, window_offset, uniquely_owned, data, adaptors,
                   windows, input, yielded, disturbed, consecutive, lastWrite>>

\* the bound an element short from the window size on
HintBoundShort(x, size) ==
    IF x = 0 THEN 0
    ELSE IF x >= size THEN x - size
    ELSE 1

\* the bound that counts no window below the window size
HintBoundZeroBelow(x, size) ==
    IF x = 0 THEN 0
    ELSE IF x >= size THEN x - size + 1
    ELSE 0

\* Adaptor::size_hint, one bound: the match on the inner bound x
HintBound(x, size) ==
    IF x = 0 THEN 0
    ELSE IF x >= size THEN x - size + 1
    ELSE 1

\* Adaptor::size_hint for the inner estimate (lo, hi)
size_hint(lo, hi) ==
    IF window_size = 0 THEN <<0, NoHint>>
    ELSE <<HintBound(lo, window_size),
           IF hi = NoHint THEN NoHint ELSE HintBound(hi, window_size)>>

\* size_hint() on adaptor a, whose inner iterator estimates (lo, hi)
AdaptorSizeHint(a, lo, hi) ==
    /\ Running
    /\ adaptors[a].born
    /\ LET h == size_hint(lo, hi) IN
       hint' = [lo |-> lo, hi |-> hi, lower |-> h[1], upper |-> h[2],
                called |-> TRUE]
    /\ lastCall' = [NoCall EXCEPT !.op = "size_hint", !.a = a]
    /\ panicked' = (lastCall'.res = "panic")
    /\ UNCHANGED <<window_size, from_vec, finished, spare, writes, window_offset, uniquely_owned, data, consumed, vec,
                   adaptors, windows, input, yielded, disturbed, consecutive,
                   lastWrite>>

Next ==
    \/ \E a \in Adaptors : \E inp \in Inputs(a) : AdaptorNew(a, inp)
    \/ \E a \in Adaptors : AdaptorNext(a)
    \/ \E i \in 1..MaxSize : WindowDrop(i)
    \/ \E i \in 1..MaxSize, k \in 0..(MaxSize - 1) : WindowWrite(i, k)
    \/ StorageInto

Spec == Init /\ [][Next]_vars

\* An Adaptor on one Storage, asked for its estimate with every inner
\* estimate (lo, hi) up to MaxHint
NextHint ==
    \/ \E inp \in Inputs(1) : AdaptorNew(1, inp)
    \/ AdaptorNext(1)
    \/ \E i \in 1..MaxSize : WindowDrop(i)
    \/ \E lo \in 0..MaxHint, hi \in (0..MaxHint) \cup {NoHint} :
           AdaptorSizeHint(1, lo, hi)

\* the window sizes up to one past the largest inner bound
InitHint == StorageInit(0..(MaxHint + 1))

SpecHint == InitHint /\ [][NextHint]_vars

\* the inputs of a Storage used for one run after the other: the fused
\* iterators of every length, for the second Adaptor as for the first
ReuseInputs(a) == {MkInput(a, n, -1) : n \in 0..MaxLen}

\* Adaptors built on one Storage, no write made through their Windows
NextReuse ==
    \/ \E a \in Adaptors : \E inp \in ReuseInputs(a) : AdaptorNew(a, inp)
    \/ \E a \in Adaptors : AdaptorNext(a)
    \/ \E i \in 1..MaxSize : WindowDrop(i)
    \/ StorageInto

SpecReuse == Init /\ [][NextReuse]_vars

\* ------------------------------------------------------------ the claims
\* the first Adaptor alone on its Storage, fed a fused input, each Window
\* dropped before the next call and never written to
Solo == ~disturbed /\ adaptors[1].born /\ Fused(input[1])

\* the last call was next() on Adaptor a
LastNext(a) == lastCall.op = "next" /\ lastCall.a = a

\* C1: an Adaptor on a fresh Storage over an input of n elements, with
\* 1 <= window_size <= n and every Window dropped before the next call,
\* yields exactly n - window_size + 1 Windows, and the i-th (from 0), read
\* in logical order, is input[i .. i + window_size].
C1_WindowsAreInputSlices ==
    (Solo /\ LastNext(1) /\ 1 <= window_size /\ window_size <= Len(input[1])) =>
        /\ lastCall.res /= "panic"
        /\ yielded[1] <= Len(input[1]) - window_size + 1
        /\ lastCall.res = "some" =>
               lastCall.win =
                   SubSeq(input[1], yielded[1], yielded[1] + window_size - 1)
        /\ lastCall.res = "none" =>
               yielded[1] = Len(input[1]) - window_size + 1

\* a run of at least three Windows of two or more elements has ended
C1_Witness ==
    /\ Solo /\ LastNext(1) /\ lastCall.res = "none"
    /\ window_size >= 2 /\ yielded[1] >= 3
    /\ window_offset = 0

\* this step is a call of next() on Adaptor a
NextStep(a) == lastCall'.op = "next" /\ lastCall'.a = a /\ vars' /= vars

\* the inner iterator of Adaptor a answers with an element when asked
HasElement(a) ==
    adaptors[a].iter /= <<>> /\ Head(adaptors[a].iter) /= NONE

\* C2 as claimed: every next() called while a Window is live panics,
\* whatever the remaining input.
C2_EveryCallWhileLivePanics ==
    [][\A a \in Adaptors :
          (NextStep(a) /\ windows /= <<>>) => lastCall'.res = "panic"]_vars

\* C2 as amended: next() called while a Window is live panics exactly when
\* the Adaptor is not done and its inner iterator yields another element
\* (the assert is in push); otherwise it returns None. It never returns a
\* second Window nor touches the buffer under the live one, and it never
\* panics when no Window is live.
C2_PanicsIffLiveAndElement ==
    [][\A a \in Adaptors :
          NextStep(a) =>
              /\ lastCall'.res = "panic" <=>
                     (windows /= <<>> /\ ~NextIdle(a) /\ HasElement(a))
              /\ windows /= <<>> =>
                     /\ lastCall'.res /= "some"
                     /\ windows' = windows
                     /\ data' = data /\ window_offset' = window_offset]_vars

\* next() has returned None while the Window it yielded before is live
C2_Witness ==
    /\ lastCall.op = "next" /\ lastCall.res = "none" /\ ~lastCall.again
    /\ windows /= <<>> /\ windows[1].owner = lastCall.a
    /\ window_size >= 2

\* at most one Window is live, and the flag is false exactly then
OneWindowAndFlag ==
    /\ Len(windows) <= 1
    /\ uniquely_owned = FALSE <=> Len(windows) = 1

\* C3: at most one Window on the Storage is live and uniquely_owned is false
\* exactly when one is; the flag changes only when next() returns a Window
\* (new_window clears it) and when a Window is dropped (which sets it),
\* whatever the interleaving of new, next and drop on the Adaptors built
\* on the Storage.
C3_FlagIffWindowLive ==
    /\ []OneWindowAndFlag
    /\ [][uniquely_owned' /= uniquely_owned =>
             \/ /\ lastCall'.op = "next" /\ lastCall'.res = "some"
                /\ uniquely_owned' = FALSE
                /\ Len(windows') = Len(windows) + 1
             \/ /\ lastCall'.op = "drop"
                /\ uniquely_owned' = TRUE
                /\ Len(windows') = Len(windows) - 1]_vars

\* a Window of the second Adaptor is live while the first Adaptor, built on
\* the same Storage, is still running and has yielded Windows of its own
C3_Witness ==
    /\ Len(windows) = 1 /\ windows[1].owner = 2 /\ ~uniquely_owned
    /\ adaptors[1].born /\ ~adaptors[1].done /\ yielded[1] >= 1

C5_ZeroSizeDoesNothing ==
    [][\A a \in Adaptors :
          (NextStep(a) /\ window_size = 0) =>
              /\ lastCall'.res = "none" /\ lastCall'.pulled = 0
              /\ ~panicked'
              /\ adaptors' = adaptors
              /\ UNCHANGED <<data, spare, window_offset, uniquely_owned,
                             windows, yielded>>]_vars

\* next() has returned None a second time on an Adaptor of window size 0
\* whose inner iterator still has all its elements
C5_Witness ==
    /\ window_size = 0 /\ lastCall.op = "next" /\ lastCall.res = "none"
    /\ lastCall.again
    /\ adaptors[lastCall.a].iter = input[lastCall.a]
    /\ Len(input[lastCall.a]) >= 2
    /\ data = <<>> /\ windows = <<>>

\* the last write went through a Window of Adaptor a, and that Adaptor has
\* yielded j more Windows since, j no more than the position written
WrittenThenYielded(a, j) ==
    /\ lastWrite.a = a
    /\ j = yielded[a] - lastWrite.at
    /\ j <= lastWrite.k

\* the live Window of Adaptor a shows the written value at position k - j
ShownShifted(a, j) ==
    (Len(windows) = 1 /\ windows[1].owner = a) =>
        LET win == WindowRead(data, windows[1].window_offset) IN
        /\ lastWrite.k - j + 1 <= Len(win)
        /\ win[lastWrite.k - j + 1] = Written(a)

\* the Vec that into() returned holds the written value
KeptInVec(a) ==
    (consumed /\ ~panicked) => \E i \in 1..Len(vec) : vec[i] = Written(a)

ClosedForm(x, s) == IF x = 0 THEN 0 ELSE IF x >= s THEN x - s + 1 ELSE 1

\* the standard sliding count of x elements under a window of s
SlidingCount(x, s) == IF x - s + 1 > 0 THEN x - s + 1 ELSE 0

\* C7: size_hint() is the closed-form transformation of the inner estimate
\* (lo, hi): (0, None) for window size 0; otherwise each bound is 0 for 0,
\* x - s + 1 for x >= s and 1 below s, and an upper bound of None stays
\* None. (5, Some(5)) gives (3, Some(3)) for s = 3 and (1, Some(1)) for
\* s = 5 (and 6); (0, Some(0)) gives (0, Some(0)) for every s > 0.
C7_SizeHintClosedForm ==
    hint.called =>
        /\ window_size = 0 => (hint.lower = 0 /\ hint.upper = NoHint)
        /\ window_size > 0 =>
               /\ hint.lower = ClosedForm(hint.lo, window_size)
               /\ hint.hi = NoHint => hint.upper = NoHint
               /\ hint.hi /= NoHint =>
                      hint.upper = ClosedForm(hint.hi, window_size)
        /\ (hint.lo = 5 /\ hint.hi = 5 /\ window_size = 3) =>
               (hint.lower = 3 /\ hint.upper = 3)
        /\ (hint.lo = 5 /\ hint.hi = 5 /\ window_size \in {5, 6}) =>
               (hint.lower = 1 /\ hint.upper = 1)
        /\ (hint.lo = 0 /\ hint.hi = 0 /\ window_size > 0) =>
               (hint.lower = 0 /\ hint.upper = 0)

\* size_hint() has answered (1, Some(1)) to (5, Some(5)) under window size 6
C7_Witness ==
    /\ hint.called /\ window_size = 6
    /\ hint.lo = 5 /\ hint.hi = 5 /\ hint.lower = 1 /\ hint.upper = 1

\* C8 as claimed: for window size s >= 1 each bound of size_hint() is the
\* sliding count max(0, n - s + 1) of the inner bound n, so 0 whenever
\* n < s.
C8_BoundIsSlidingCount ==
    (hint.called /\ window_size >= 1) =>
        /\ hint.lower = SlidingCount(hint.lo, window_size)
        /\ hint.hi /= NoHint => hint.upper = SlidingCount(hint.hi, window_size)

\* C8 as amended: each bound is max(0, n - s + 1) for n = 0 and for n >= s;
\* for 0 < n < s it is 1, not 0.
C8_BoundIsSlidingCountOrOne ==
    (hint.called /\ window_size >= 1) =>
        /\ (hint.lo = 0 \/ hint.lo >= window_size) =>
               hint.lower = SlidingCount(hint.lo, window_size)
        /\ (0 < hint.lo /\ hint.lo < window_size) => hint.lower = 1
        /\ (hint.hi = 0 \/ hint.hi >= window_size) =>
               hint.upper = SlidingCount(hint.hi, window_size)
        /\ (0 < hint.hi /\ hint.hi < window_size) => hint.upper = 1

\* both bounds are 1 for an inner estimate below the window size
C8_Witness ==
    /\ hint.called /\ window_size = 3
    /\ hint.lo = 1 /\ hint.hi = 2 /\ hint.lower = 1 /\ hint.upper = 1

\* x was pulled from the input of Adaptor a, or written through one of its
\* Windows
OfRun(a, x) == Elt(a, 1) <= x /\ x <= Written(a)

\* every element of the sequence is of the run of Adaptor a
AllOfRun(a, seq) == \A i \in 1..Len(seq) : OfRun(a, seq[i])

\* a Window of the second Adaptor is live, and that Adaptor was constructed
\* after the first had returned None and its Windows were dropped
SecondRunWindow ==
    consecutive /\ Len(windows) = 1 /\ windows[1].owner = 2

\* C9: when a Storage is reused by a second Adaptor after the first has run
\* to completion, every Window of the second run, traversed with iter() or
\* with iter_mut(), shows only elements of the second input: no element
\* that the first run left in the buffer appears.
C9_ReuseShowsNoStaleElement ==
    SecondRunWindow =>
        /\ AllOfRun(2, data)
        /\ LET win == WindowRead(data, windows[1].window_offset) IN
           win = <<OOB>> \/ AllOfRun(2, win)
        /\ AllOfRun(2, WindowReadMut(data, spare, windows[1].window_offset))

\* what holds of the code: the slice of every Window of the second run holds
\* elements of the second input only
C9_SliceHoldsNoStaleElement ==
    SecondRunWindow => AllOfRun(2, data)

\* C10: the Adaptor is fused. Once next() has returned None, every later
\* next() on the same Adaptor returns None, pulls nothing from the inner
\* iterator and leaves the buffer as it is, even if the inner iterator
\* would yield elements again.
C10_Fused ==
    [][\A a \in Adaptors :
          (NextStep(a) /\ a \in finished) =>
              /\ lastCall'.res = "none" /\ lastCall'.pulled = 0
              /\ adaptors' = adaptors
              /\ UNCHANGED <<data, spare, window_offset, uniquely_owned,
                             windows, yielded>>]_vars

\* next() has returned None again on an Adaptor of window size >= 1 whose
\* inner iterator, having answered None once, has elements left
C10_Witness ==
    /\ lastCall.op = "next" /\ lastCall.res = "none" /\ lastCall.again
    /\ window_size >= 1
    /\ HasElement(lastCall.a)
    /\ ~Fused(input[lastCall.a])

RECURSIVE RefFill(_, _, _, _)
\* the for loop of Adaptor::next on a Storage whose flag is set (the Window
\* of the call before was dropped): pull until the inner iterator answers
\* None or a push returns true
RefFill(it, d, off, dn) ==
    IF it = <<>> THEN [iter |-> it, data |-> d, off |-> off, done |-> dn]
    ELSE IF Head(it) = NONE
    THEN [iter |-> Tail(it), data |-> d, off |-> off, done |-> dn]
    ELSE LET r == push(d, <<>>, off, Head(it)) IN
         IF r.ret
         THEN [iter |-> Tail(it), data |-> r.data, off |-> r.off, done |-> FALSE]
         ELSE RefFill(Tail(it), r.data, r.off, FALSE)

RECURSIVE RefWindows(_, _, _)
\* The Windows, each read with iter(), that an Adaptor whose inner iterator
\* has it left yields on a Storage holding d at offset off when next() is
\* called until it returns None and each Window is dropped before the next
\* call. RefWindows(inp, <<>>, 0) is the run over inp on Storage::new.
RefWindows(it, d, off) ==
    IF window_size = 0 THEN <<>>
    ELSE LET r == RefFill(it, d, off, TRUE) IN
         IF r.done THEN <<>>
         ELSE <<WindowRead(r.data, r.off)>> \o RefWindows(r.iter, r.data, r.off)

\* the first Adaptor on its Storage, each Window dropped before the next
\* call and never written to, and no second Adaptor constructed
FirstRun == ~disturbed /\ adaptors[1].born /\ ~adaptors[2].born

\* C11: the Windows an Adaptor yields on a Storage made by from_vec do not
\* depend on what the Vec held (nothing, fewer, as many or more elements
\* than window_size): call by call they are the Windows of the same input
\* on Storage::new(window_size), and there are as many of them.
C11_FromVecContentsDiscarded ==
    (FirstRun /\ LastNext(1)) =>
        LET ref == RefWindows(input[1], <<>>, 0) IN
        /\ lastCall.res /= "panic"
        /\ yielded[1] <= Len(ref)
        /\ lastCall.res = "some" => lastCall.win = ref[yielded[1]]
        /\ lastCall.res = "none" => yielded[1] = Len(ref)

\* the second Window of a run on a Storage made from a Vec that held an
\* element has been yielded
C11_Witness ==
    /\ FirstRun /\ LastNext(1) /\ lastCall.res = "some"
    /\ from_vec /= <<>> /\ window_size >= 2 /\ yielded[1] >= 2
    /\ \A i \in 1..Len(lastCall.win) : lastCall.win[i] /= STALE

\* how many elements Adaptor a has pulled from its inner iterator so far
PulledBy(a) ==
    Cardinality({i \in 1..(Len(input[a]) - Len(adaptors[a].iter)) :
                     input[a][i] /= NONE})

Min(x, y) == IF x <= y THEN x ELSE y

Constructed == lastCall.op = "new" /\ lastCall.res = "ok"

\* C13: clear(), as run by Adaptor::new, leaves the buffer with no element
\* and with the logical start offset at 0, whatever offset the use of the
\* Storage before left behind.
C13_ClearResetsOffset ==
    Constructed => (data = <<>> /\ window_offset = 0)

\* what holds of the code: clear() leaves the buffer with no element
C13_ClearEmptiesData ==
    Constructed => data = <<>>

\* the second Adaptor was constructed after the first had returned None and
\* its Windows were dropped; no write was made and each Window was dropped
\* before the next call
SecondRun == consecutive /\ ~disturbed

\* C14: the Windows an Adaptor yields depend on its input and the window
\* size only, not on what the Storage was used for before: an Adaptor on a
\* Storage that another Adaptor has driven to the end yields, call by call,
\* the Windows of the same input on a fresh Storage, with the same elements
\* in the same logical order.
C14_WindowsIndependentOfHistory ==
    (SecondRun /\ LastNext(2)) =>
        LET ref == RefWindows(input[2], <<>>, 0) IN
        /\ lastCall.res /= "panic"
        /\ yielded[2] <= Len(ref)
        /\ lastCall.res = "some" => lastCall.win = ref[yielded[2]]
        /\ lastCall.res = "none" => yielded[2] = Len(ref)

\* what holds of the code: the second run has as many Windows as the same
\* input gives on a fresh Storage
C14_SameNumberOfWindows ==
    (SecondRun /\ LastNext(2)) =>
        LET ref == RefWindows(input[2], <<>>, 0) IN
        /\ lastCall.res /= "panic"
        /\ yielded[2] <= Len(ref)
        /\ lastCall.res = "none" => yielded[2] = Len(ref)

\* the traversals of the i-th live Window start inside its slice
StartsInside(i) == windows[i].window_offset < Len(data)

\* C15: every access through a yielded Window stays inside the buffer. For
\* every Window returned by next(), after any Adaptor constructions and runs
\* on the Storage and for any input lengths, window_offset is less than the
\* number of stored elements, so neither iter() nor iter_mut() reaches a
\* slot at or past the end of the storage.
C15_AccessesStayInBounds ==
    \A i \in 1..Len(windows) :
        /\ StartsInside(i)
        /\ WindowRead(data, windows[i].window_offset) /= <<OOB>>
        /\ \A k \in 0..(Len(data) - 1) :
               IterIndex(Len(data), windows[i].window_offset, k) < Len(data)

\* what holds of the code: the Windows of the only Adaptor ever constructed
\* on a Storage start inside their slice
C15_InBoundsOnFreshStorage ==
    ~adaptors[2].born => \A i \in 1..Len(windows) : StartsInside(i)

\* size_hint() was called on the first Adaptor, of window size >= 1, with
\* the exact estimate of a fused inner iterator: both bounds are the number
\* of elements it has left
ExactHint ==
    /\ hint.called /\ window_size >= 1
    /\ adaptors[1].born /\ Fused(input[1])
    /\ hint.lo = Len(adaptors[1].iter) /\ hint.hi = Len(adaptors[1].iter)

\* how many Windows the first Adaptor will still yield
WindowsLeft == Len(RefWindows(adaptors[1].iter, data, window_offset))

\* C16: size_hint() is a valid estimate at every point of an iteration. For
\* window size >= 1 and an inner iterator whose estimate is exact, after any
\* number of next() calls the number of Windows the Adaptor will still
\* yield is at least the lower and at most the upper bound returned.
C16_SizeHintBoundsWhatIsLeft ==
    ExactHint => (hint.lower <= WindowsLeft /\ WindowsLeft <= hint.upper)

\* what holds of the code: the lower bound is valid at every point, and
\* before the first element is pulled both bounds are the number of Windows
\* to come
C16_ValidBeforeFirstPull ==
    ExactHint =>
        /\ hint.lower <= WindowsLeft
        /\ adaptors[1].iter = input[1] =>
               (hint.lower = WindowsLeft /\ hint.upper = WindowsLeft)

\* the elements the last call pulled are the last ones of the Window it
\* returned
PulledAreInWindow ==
    LET n == lastCall.pulled
        c == PulledBy(1)
        w == lastCall.win
    IN /\ 1 <= n /\ n <= Len(w)
       /\ SubSeq(w, Len(w) - n + 1, Len(w)) = SubSeq(input[1], c - n + 1, c)

\* a call of next() on the first Adaptor has returned, in a run over a fused
\* input with each Window dropped before the next call
FirstRunCall ==
    FirstRun /\ Fused(input[1]) /\ LastNext(1) /\ window_size >= 1

LastRun == IF adaptors[2].born THEN 2 ELSE 1

\* the elements Adaptor a has pushed, in the order of its input
Pushed(a) == SubSeq(input[a], 1, PulledBy(a))

\* of the m elements pushed, the index (from 0) of the one pushed last
\* among those whose index is congruent to j modulo s
LastCongruent(m, s, j) ==
    CHOOSE i \in 0..(m - 1) :
        /\ i % s = j
        /\ \A i2 \in 0..(m - 1) : i2 % s = j => i2 <= i

\* the ring layout of the pushed elements over s slots
RingLayout(seq, s) ==
    [j \in 1..s |-> seq[LastCongruent(Len(seq), s, j - 1) + 1]]

\* into() has returned after runs that each went to the end of a fused
\* input with no write made, the last of them over at least window_size
\* elements
IntoAfterRun ==
    /\ consumed /\ ~panicked /\ ~disturbed /\ writes = 0
    /\ window_size >= 1
    /\ Fused(input[LastRun]) /\ PulledBy(LastRun) >= window_size

\* the Vec has window_size elements, slot j holding the element pushed last
\* among those whose index is congruent to j modulo window_size
VecInRingLayout ==
    IntoAfterRun => vec = RingLayout(Pushed(LastRun), window_size)

\* a next() that pulls into a full buffer overwrites the slot at the logical
\* start, moves the start on by one modulo window_size and leaves the other
\* slots as they are
PushOnFullOverwritesStart ==
    \A a \in Adaptors :
        (NextStep(a) /\ lastCall'.res = "some"
              /\ window_size >= 1 /\ Len(data) = window_size) =>
            /\ lastCall'.pulled = 1
            /\ data' = [data EXCEPT ![window_offset + 1] = Head(adaptors[a].iter)]
            /\ window_offset' = (window_offset + 1) % window_size

\* C18: the Vec a Storage is turned into after a run is in physical ring
\* layout. After n >= window_size elements were pushed and none written
\* through a Window, it has window_size elements and slot j holds the
\* element pushed last among those whose index is congruent to j modulo
\* window_size; and push on a full buffer overwrites exactly the slot at the
\* logical start and moves the start on by one modulo window_size.
C18_IntoGivesRingLayout ==
    /\ []VecInRingLayout
    /\ [][PushOnFullOverwritesStart]_vars

\* what holds of the code: the ring layout of the Vec after the run of the
\* only Adaptor constructed on the Storage, and the overwriting push
C18_RingLayoutOnFreshStorage ==
    /\ [](~adaptors[2].born => VecInRingLayout)
    /\ [][PushOnFullOverwritesStart]_vars

\* the elements of the slice d in logical order from offset off: position i
\* (from 0) is physical slot (off + i) mod len
LogicalOrder(d, off) ==
    [i \in 1..Len(d) |-> d[((off + i - 1) % Len(d)) + 1]]

\* slices to compare a Window over d with: its logical order, its physical
\* order, one element more, one less, and one element changed
Slices(d, off) ==
    LET lo == LogicalOrder(d, off) IN
    {lo, d, Append(lo, GARBAGE), Tail(lo), [lo EXCEPT ![Len(lo)] = GARBAGE]}

\* iter() and iter_mut() on a Window over d at offset off each give the
\* len elements in logical order, and comparing it with a slice is true
\* exactly for the slice of that length and those elements
TraversedInLogicalOrder(d, sp, off) ==
    /\ WindowRead(d, off) = LogicalOrder(d, off)
    /\ WindowReadMut(d, sp, off) = LogicalOrder(d, off)
    /\ \A other \in Slices(d, off) :
           /\ WindowEq(d, off, other) \in {"true", "false"}
           /\ WindowEq(d, off, other) = "true" <=> other = LogicalOrder(d, off)

\* C19: a traversal of a Window with iter() or iter_mut() visits the
\* logical positions 0 .. len-1 in order, position i being physical slot
\* (window_offset + i) mod len, gives exactly len elements and starts anew
\* from position 0 on every call; comparing a Window with a slice is true
\* exactly when the lengths are equal and the elements agree position by
\* position in that order.
C19_TraversalInLogicalOrder ==
    \A i \in 1..Len(windows) :
        TraversedInLogicalOrder(data, spare, windows[i].window_offset)

\* what holds of the code: the same, for a Window that starts inside its
\* slice
C19_LogicalOrderWhenStartInside ==
    \A i \in 1..Len(windows) :
        StartsInside(i) =>
            TraversedInLogicalOrder(data, spare, windows[i].window_offset)

====
